---------------------------- MODULE Spec2Model ----------------------------
(***************************************************************************)
(* Model of dice_server.rs: two actix-web handlers, randnum (entrypoint)   *)
(* and gen_num (worker), chained by one outbound HTTP call that carries    *)
(* the W3C trace context; two process-wide counters.                       *)
(*                                                                         *)
(* Strings that cross a conversion (header values, the reply body) are     *)
(* sequences of one-character strings, so that formatting and parsing are  *)
(* computed and not assumed.                                               *)
(***************************************************************************)
EXTENDS Integers, Sequences, FiniteSets, TLC

(***************************************************************************)
(* Bounds of the model.                                                    *)
(***************************************************************************)
\* number of inbound /randnum requests
NumEntry == 1
\* number of inbound /gen_num requests sent by outside clients
NumExternal == 1

\* gen_range(1..10): the draw is in DrawLow .. DrawHigh - 1
DrawLow == 1
DrawHigh == 10


(***************************************************************************)
(* Characters and numbers                                                  *)
(***************************************************************************)
HexDigits == <<"0","1","2","3","4","5","6","7","8","9","a","b","c","d","e","f">>
\* a byte >= 0x80, which a header value may hold and to_str() refuses
OpaqueByte == "\\xff"

IsUpper(c) == c \in {"A","B","C","D","E","F"}

HexVal(c) ==
    CASE c \in {"a","A"} -> 10 [] c \in {"b","B"} -> 11 [] c \in {"c","C"} -> 12
      [] c \in {"d","D"} -> 13 [] c \in {"e","E"} -> 14 [] c \in {"f","F"} -> 15
      [] c = "0" -> 0 [] c = "1" -> 1 [] c = "2" -> 2 [] c = "3" -> 3
      [] c = "4" -> 4 [] c = "5" -> 5 [] c = "6" -> 6 [] c = "7" -> 7
      [] c = "8" -> 8 [] c = "9" -> 9
      [] OTHER -> -1

RECURSIVE ToHex(_, _)
\* format!("{:0w$x}", n): lowercase hex, zero padded to w digits
ToHex(n, w) ==
    IF w = 0 THEN <<>> ELSE Append(ToHex(n \div 16, w - 1), HexDigits[(n % 16) + 1])

RECURSIVE StripZeros(_)
StripZeros(s) == IF s # <<>> /\ Head(s) = "0" THEN StripZeros(Tail(s)) ELSE s

\* the one element of a singleton set: The({e(x) : x \in {v}}) is e with x
\* standing for the value of v, computed once
The(S) == CHOOSE x \in S : TRUE

RECURSIVE HexNumUpTo(_, _)
HexNumUpTo(s, k) == IF k = 0 THEN 0 ELSE 16 * HexNumUpTo(s, k - 1) + HexVal(s[k])

\* the number a string of hex digits denotes
HexNum(s) == HexNumUpTo(s, Len(s))

\* uN::from_str_radix(s, 16) with N = 4 * digits: -1 stands for Err
FromStrRadix16(s, digits) ==
    IF s = <<>> \/ \E i \in 1..Len(s) : HexVal(s[i]) < 0 THEN -1
    ELSE The({IF Len(z) > digits THEN -1 ELSE HexNum(z) : z \in {StripZeros(s)}})

RECURSIVE SplitDash(_)
\* str::split_terminator('-')
SplitDash(s) ==
    IF s = <<>> THEN <<>>
    ELSE The({IF idx = {} THEN <<s>>
              ELSE The({<<SubSeq(s, 1, k - 1)>> \o SplitDash(SubSeq(s, k + 1, Len(s))) :
                        k \in {CHOOSE i \in idx : \A j \in idx : i <= j}}) :
              idx \in {{i \in 1..Len(s) : s[i] = "-"}}})

RECURSIVE ToDecimal(_)
\* i32::to_string for n >= 0
ToDecimal(n) ==
    IF n < 10 THEN <<HexDigits[n + 1]>>
    ELSE Append(ToDecimal(n \div 10), HexDigits[(n % 10) + 1])

RECURSIVE ParseDecimal(_)
\* the integer a decimal body reads as, -1 when it is not one
ParseDecimal(s) ==
    IF s = <<>> \/ \E i \in 1..Len(s) : HexVal(s[i]) \notin 0..9 THEN -1
    ELSE IF Len(s) = 1 THEN HexVal(s[1])
    ELSE 10 * ParseDecimal(SubSeq(s, 1, Len(s) - 1)) + HexVal(s[Len(s)])

(***************************************************************************)
(* Span contexts and the TraceContextPropagator                            *)
(***************************************************************************)
SAMPLED == 1
NoSpanContext == [trace_id |-> 0, span_id |-> 0, flags |-> 0, remote |-> FALSE]
IsValid(sc) == sc.trace_id # 0 /\ sc.span_id # 0

NoHeaders == [n \in {} |-> <<>>]

\* version-traceid(32 hex)-spanid(16 hex)-flags(2 hex)
TraceParent(sc) ==
    <<"0","0","-">> \o ToHex(sc.trace_id, 32) \o <<"-">> \o ToHex(sc.span_id, 16)
        \o <<"-">> \o ToHex(sc.flags % 2, 2)

\* propagator.inject_context: nothing is written for an invalid span context
PropagatorInject(sc) ==
    IF IsValid(sc)
    THEN [n \in {"traceparent", "tracestate"} |->
             IF n = "traceparent" THEN TraceParent(sc) ELSE <<>>]
    ELSE NoHeaders

\* propagator.extract on a string map: the remote span context, NoSpanContext
\* when the key is missing or does not parse
PropagatorExtract(h) ==
    IF "traceparent" \notin DOMAIN h THEN NoSpanContext
    ELSE The({
         IF Len(parts) < 4 THEN NoSpanContext
         ELSE The({
              IF \/ version < 0 \/ version > 254
                 \/ (version = 0 /\ Len(parts) # 4)
                 \/ \E i \in 1..Len(parts[2]) : IsUpper(parts[2][i])
                 \/ tid < 0
                 \/ \E i \in 1..Len(parts[3]) : IsUpper(parts[3][i])
                 \/ sid < 0
                 \/ opts < 0
                 \/ (version = 0 /\ opts > 2)
                 \/ tid = 0 \/ sid = 0
              THEN NoSpanContext
              ELSE [trace_id |-> tid, span_id |-> sid,
                    flags |-> opts % 2, remote |-> TRUE] :
              version \in {FromStrRadix16(parts[1], 2)},
              tid \in {FromStrRadix16(parts[2], 32)},
              sid \in {FromStrRadix16(parts[3], 16)},
              opts \in {FromStrRadix16(parts[4], 2)}}) :
         parts \in {SplitDash(h["traceparent"])}})


(***************************************************************************)
(* Spans                                                                   *)
(***************************************************************************)
\* Option<&Context>
None == <<>>
Some(cx) == <<cx>>

\* Context::current(): the handlers never attach a context, so the current
\* context of every task holds no span
CurrentContext == NoSpanContext

\* Sampler::ParentBased(AlwaysOn), the default of sdktrace::Config
ShouldSample(parent) == IF IsValid(parent) THEN parent.flags % 2 = SAMPLED ELSE TRUE

\* get_cx_from_parent_cx with both arms calling start(&tracer): the parent
\* context is not used
get_cx_from_parent_cx_unparented(spam_name, parent_cx, tid, sid) ==
    [name |-> spam_name,
     kind |-> "server",
     trace_id |-> tid,
     span_id |-> sid,
     parent_span_id |-> 0,
     flags |-> SAMPLED,
     recording |-> TRUE,
     status |-> "unset",
     events |-> <<>>,
     ends |-> 0]

\* the span get_cx_from_parent_cx starts; tid and sid are the identifiers
\* the id generator draws
get_cx_from_parent_cx(spam_name, parent_cx, tid, sid) ==
    LET parent == IF parent_cx = None THEN CurrentContext ELSE parent_cx[1]
    IN [name |-> spam_name,
        kind |-> "server",
        trace_id |-> IF IsValid(parent) THEN parent.trace_id ELSE tid,
        span_id |-> sid,
        parent_span_id |-> IF IsValid(parent) THEN parent.span_id ELSE 0,
        flags |-> IF ShouldSample(parent) THEN SAMPLED ELSE 0,
        recording |-> ShouldSample(parent),
        status |-> "unset",
        events |-> <<>>,
        ends |-> 0]

\* Context::current_with_span(span), seen through cx.span().span_context()
ContextOf(span) ==
    [trace_id |-> span.trace_id, span_id |-> span.span_id,
     flags |-> span.flags, remote |-> FALSE]

\* cx.span().add_event(name, ..): dropped when the span is not recording or
\* has ended
add_event(span, name) ==
    IF span.recording /\ span.ends = 0
    THEN [span EXCEPT !.events = Append(@, name)]
    ELSE span

\* the Context that owns the span goes out of scope: the span is ended
DropContext(span) == [span EXCEPT !.ends = @ + 1]

(***************************************************************************)
(* Header maps                                                             *)
(***************************************************************************)
\* HeaderValue::to_str: Err when a byte is not visible ASCII
ToStrOk(v) == \A i \in 1..Len(v) : v[i] # OpaqueByte

\* inject_context that adds only the names the request does not hold yet
inject_context_keeps_existing(request, cx) ==
    LET r_headers == PropagatorInject(cx)
    IN [n \in DOMAIN request \cup DOMAIN r_headers |->
           IF n \in DOMAIN request THEN request[n] ELSE r_headers[n]]

\* inject_context (lines 45-62): the propagator's headers are inserted into
\* the request's header map, overwriting equal names
inject_context(request, cx) ==
    LET r_headers == PropagatorInject(cx)
    IN [n \in DOMAIN request \cup DOMAIN r_headers |->
           IF n \in DOMAIN r_headers THEN r_headers[n] ELSE request[n]]

\* extract_context (lines 64-73): value.to_str().unwrap() panics on a value
\* that is no string; otherwise the propagator decides
extract_context(headers) ==
    IF \E n \in DOMAIN headers : ~ToStrOk(headers[n])
    THEN [panic |-> TRUE, cx |-> NoSpanContext]
    ELSE [panic |-> FALSE, cx |-> PropagatorExtract(headers)]

\* identifiers an outside client puts on the wire
ExtTraceId == HexNum(<<"a","b","c">>)
ExtSpanId == HexNum(<<"d","e","f">>)
ExtContext(flags) ==
    [trace_id |-> ExtTraceId, span_id |-> ExtSpanId, flags |-> flags, remote |-> TRUE]

OneHeader(name, v) == [n \in {name} |-> v]

\* headers of the /gen_num requests of outside clients
InboundHeaders ==
    { NoHeaders,
      OneHeader("traceparent", TraceParent(ExtContext(1))),
      OneHeader("traceparent", TraceParent(ExtContext(0))),
      OneHeader("traceparent", <<"0","0","-","g","-","1","-","0","1">>),
      OneHeader("traceparent", TraceParent([ExtContext(1) EXCEPT !.trace_id = 0])),
      OneHeader("x-tag", <<"t", OpaqueByte>>) }

(***************************************************************************)
(* State                                                                   *)
(***************************************************************************)
VARIABLES
    success,    \* HTTP_METRICS.success_counter
    failure,    \* HTTP_METRICS.failure_counter
    spans,      \* every span started so far, by span id
    epc,        \* randnum: position of each entrypoint request
    ecx,        \* randnum: cx
    esent,      \* randnum: the outbound requests dispatched
    eres,       \* randnum: what request.send() and response.body() resolved to
    eresp,      \* randnum: the response returned
    wpc,        \* gen_num: position of each worker request
    whdr,       \* gen_num: req.headers()
    wparent,    \* gen_num: parent_cx
    wcx,        \* gen_num: cx
    wodd,       \* is_odd: cx
    wdraw,      \* gen_num: the value gen_range returned
    wisodd,     \* gen_num: is_odd, the value is_odd(&cx) returned
    wnum,       \* gen_num: random_number
    wresp,      \* gen_num: the response returned
    codec       \* a context taken through inject_context and extract_context

vars == <<success, failure, spans, epc, ecx, esent, eres, eresp,
          wpc, whdr, wparent, wcx, wodd, wdraw, wisodd, wnum, wresp, codec>>
evars == <<epc, ecx, esent, eres, eresp>>
wvars == <<wpc, whdr, wparent, wcx, wodd, wdraw, wisodd, wnum, wresp>>

\* The requests of a run are those its initial state holds: randnum request e
\* owns worker request e, its outbound call; the other worker requests come
\* from outside clients
Entries == DOMAIN epc
Workers == DOMAIN wpc
External == Workers \ Entries

NoResponse == [status |-> 0, body |-> <<>>]
Pending == [kind |-> "Pending", status |-> 0, body |-> <<>>]
CodecIdle == [pc |-> "idle", cx |-> NoSpanContext, headers |-> NoHeaders,
              panic |-> FALSE, out |-> NoSpanContext]

\* The id generator (RandomIdGenerator): 64-bit span ids and 128-bit trace
\* ids drawn at random.  Two draws are taken never to collide, and the draw
\* of each call is named after the call that makes it, which loses nothing
\* up to a renaming of the identifiers.
EntrySpanId(e) == 3 * e - 2
WorkerSpanId(w) == 3 * w - 1
OddSpanId(w) == 3 * w
EntryTraceId(e) == 3 * e - 2
WorkerTraceId(w) == 3 * w - 1
OddTraceId(w) == 3 * w

Started(span) == [s \in DOMAIN spans \cup {span.span_id} |->
                     IF s = span.span_id THEN span ELSE spans[s]]

\* no request handled yet; E and W are the randnum and gen_num requests of
\* the run
Idle(E, W) ==
    /\ success = 0
    /\ failure = 0
    /\ spans = [s \in {} |-> 0]
    /\ epc = [e \in E |-> "Start"]
    /\ ecx = [e \in E |-> NoSpanContext]
    /\ esent = [e \in E |-> <<>>]
    /\ eres = [e \in E |-> Pending]
    /\ eresp = [e \in E |-> NoResponse]
    /\ wpc = [w \in W |-> "Idle"]
    /\ whdr = [w \in W |-> NoHeaders]
    /\ wparent = [w \in W |-> NoSpanContext]
    /\ wcx = [w \in W |-> NoSpanContext]
    /\ wodd = [w \in W |-> NoSpanContext]
    /\ wdraw = [w \in W |-> 0]
    /\ wisodd = [w \in W |-> FALSE]
    /\ wnum = [w \in W |-> 0]
    /\ wresp = [w \in W |-> NoResponse]

Init ==
    /\ Idle(1..NumEntry, 1..(NumEntry + NumExternal))
    /\ codec = CodecIdle

(***************************************************************************)
(* randnum (lines 101-132)                                                 *)
(***************************************************************************)
\* randnum reading the inbound headers the way gen_num does
randnum_parent_extracted(headers) ==
    IF extract_context(headers).panic THEN None
    ELSE Some(extract_context(headers).cx)

\* lines 102-103: randnum() takes no HttpRequest, and passes None as the
\* parent whatever headers the inbound request holds
randnum_parent(headers) == None

\* line 103: the entrypoint span
RandnumOpenSpan(e) ==
    /\ epc[e] = "Start"
    /\ \E headers \in InboundHeaders :
          LET span == get_cx_from_parent_cx("randnum", randnum_parent(headers),
                                            EntryTraceId(e), EntrySpanId(e))
          IN /\ spans' = Started(span)
             /\ ecx' = [ecx EXCEPT ![e] = ContextOf(span)]
    /\ epc' = [epc EXCEPT ![e] = "SpanOpened"]
    /\ UNCHANGED <<success, failure, esent, eres, eresp, wvars, codec>>

\* line 108: awc::Client::default().get(url), with the headers it is sent with
Get(req_headers) ==
    [method |-> "GET", url |-> "http://127.0.0.1:8080/gen_num", headers |-> req_headers]

\* RandnumRelay that sends the request without injecting the context
RandnumRelay_no_inject(e) ==
    /\ epc[e] = "SpanOpened"
    /\ LET req_headers == NoHeaders
       IN /\ esent' = [esent EXCEPT ![e] = Append(@, Get(req_headers))]
          /\ \/ /\ wpc' = [wpc EXCEPT ![e] = "Received"]
                /\ whdr' = [whdr EXCEPT ![e] = req_headers]
             \/ UNCHANGED <<wpc, whdr>>
    /\ epc' = [epc EXCEPT ![e] = "Relayed"]
    /\ UNCHANGED <<success, failure, spans, ecx, eres, eresp,
                   wparent, wcx, wodd, wdraw, wisodd, wnum, wresp, codec>>

\* lines 108-113: the request is built, the context injected, the request
\* sent; it reaches gen_num or it does not
RandnumRelay(e) ==
    /\ epc[e] = "SpanOpened"
    /\ LET req_headers == inject_context(NoHeaders, ecx[e])
       IN /\ esent' = [esent EXCEPT ![e] = Append(@, Get(req_headers))]
          /\ \/ /\ wpc' = [wpc EXCEPT ![e] = "Received"]
                /\ whdr' = [whdr EXCEPT ![e] = req_headers]
             \/ UNCHANGED <<wpc, whdr>>
    /\ epc' = [epc EXCEPT ![e] = "Relayed"]
    /\ UNCHANGED <<success, failure, spans, ecx, eres, eresp,
                   wparent, wcx, wodd, wdraw, wisodd, wnum, wresp, codec>>

\* lines 113-114: request.send().await and response.body().await resolve.
\* The body is the one gen_num returned; the send can fail (refused, reset,
\* timed out) wherever gen_num is, the body only once a response came
RandnumAwait(e) ==
    /\ epc[e] = "Relayed"
    /\ \/ /\ wpc[e] = "Responded"
          /\ eres' = [eres EXCEPT ![e] = [kind |-> "Body", status |-> wresp[e].status,
                                            body |-> wresp[e].body]]
       \/ /\ wpc[e] = "Responded"
          /\ eres' = [eres EXCEPT ![e] = [kind |-> "BodyErr", status |-> wresp[e].status,
                                            body |-> <<>>]]
       \/ eres' = [eres EXCEPT ![e] = [kind |-> "SendErr", status |-> 0, body |-> <<>>]]
    /\ epc' = [epc EXCEPT ![e] = "Resolved"]
    /\ UNCHANGED <<success, failure, spans, ecx, esent, eresp, wvars, codec>>

\* an arm of the match that lets cx go before it records the event
RandnumReturn_event_after_drop(e, event, response) ==
    /\ spans' = [spans EXCEPT ![ecx[e].span_id] = add_event(DropContext(@), event)]
    /\ eresp' = [eresp EXCEPT ![e] = response]

\* what an arm of the match does: the event on cx.span(), the response, and
\* cx dropped when randnum returns
RandnumReturn(e, event, response) ==
    /\ spans' = [spans EXCEPT ![ecx[e].span_id] = DropContext(add_event(@, event))]
    /\ eresp' = [eresp EXCEPT ![e] = response]

\* the Ok(body) arm without the add_event call
RandnumOnBody_no_event(e) ==
    /\ success' = success + 1
    /\ failure' = failure
    /\ spans' = [spans EXCEPT ![ecx[e].span_id] = DropContext(@)]
    /\ eresp' = [eresp EXCEPT ![e] = [status |-> 200, body |-> eres[e].body]]

\* the Ok(body) arm answering Ok() with a text of its own instead of the body
RandnumOnBody_own_text(e) ==
    /\ success' = success + 1
    /\ failure' = failure
    /\ RandnumReturn(e, "received response from gen_num",
                     [status |-> 200, body |-> <<"received response from gen_num">>])

\* lines 115-119: Ok(response), Ok(body)
RandnumOnBody(e) ==
    /\ success' = success + 1
    /\ failure' = failure
    /\ RandnumReturn(e, "received response from gen_num",
                     [status |-> 200, body |-> eres[e].body])

\* the Err(_) arm of body() without the counter call
RandnumOnBodyErr_uncounted(e) ==
    /\ failure' = failure
    /\ success' = success
    /\ RandnumReturn(e, "failed to read response body",
                     [status |-> 500, body |-> <<"failed to read response body">>])

\* lines 120-124: Ok(response), Err(_) reading the body
RandnumOnBodyErr(e) ==
    /\ failure' = failure + 1
    /\ success' = success
    /\ RandnumReturn(e, "failed to read response body",
                     [status |-> 500, body |-> <<"failed to read response body">>])

\* the Err(_) arm counting on the success counter
RandnumOnSendErr_counts_success(e) ==
    /\ success' = success + 1
    /\ failure' = failure
    /\ RandnumReturn(e, "failed to send request",
                     [status |-> 500, body |-> <<"failed to send request">>])

\* lines 126-130: Err(_) from send
RandnumOnSendErr(e) ==
    /\ failure' = failure + 1
    /\ success' = success
    /\ RandnumReturn(e, "failed to send request",
                     [status |-> 500, body |-> <<"failed to send request">>])

\* the match dispatching again after a failed send instead of answering
RandnumRespond_retry(e) ==
    /\ epc[e] = "Resolved"
    /\ CASE eres[e].kind = "Body" ->
                RandnumOnBody(e) /\ epc' = [epc EXCEPT ![e] = "Responded"]
         [] eres[e].kind = "BodyErr" ->
                RandnumOnBodyErr(e) /\ epc' = [epc EXCEPT ![e] = "Responded"]
         [] OTHER ->
                /\ epc' = [epc EXCEPT ![e] = "SpanOpened"]
                /\ UNCHANGED <<success, failure, spans, eresp>>
    /\ UNCHANGED <<ecx, esent, eres, wvars, codec>>

\* lines 113-131: the match
RandnumRespond(e) ==
    /\ epc[e] = "Resolved"
    /\ CASE eres[e].kind = "Body" -> RandnumOnBody(e)
         [] eres[e].kind = "BodyErr" -> RandnumOnBodyErr(e)
         [] OTHER -> RandnumOnSendErr(e)
    /\ epc' = [epc EXCEPT ![e] = "Responded"]
    /\ UNCHANGED <<ecx, esent, eres, wvars, codec>>

(***************************************************************************)
(* gen_num (lines 134-167) and is_odd (lines 169-179)                      *)
(***************************************************************************)
\* a /gen_num request of an outside client arrives
GenNumReceive(w) ==
    /\ w \in External
    /\ wpc[w] = "Idle"
    /\ \E h \in InboundHeaders : whdr' = [whdr EXCEPT ![w] = h]
    /\ wpc' = [wpc EXCEPT ![w] = "Received"]
    /\ UNCHANGED <<success, failure, spans, evars, wparent, wcx, wodd, wdraw, wisodd, wnum, wresp, codec>>

\* lines 137-146: extract the parent context, start the worker span; a
\* panic in extract_context ends the task without a response
GenNumOpenSpan(w) ==
    /\ wpc[w] = "Received"
    /\ \E got \in {extract_context(whdr[w])} :
          IF got.panic
          THEN /\ wpc' = [wpc EXCEPT ![w] = "Aborted"]
               /\ UNCHANGED <<spans, wparent, wcx>>
          ELSE /\ wparent' = [wparent EXCEPT ![w] = got.cx]
               /\ LET span == get_cx_from_parent_cx("gen_num", Some(got.cx),
                                                    WorkerTraceId(w), WorkerSpanId(w))
                  IN /\ spans' = Started(span)
                     /\ wcx' = [wcx EXCEPT ![w] = ContextOf(span)]
               /\ wpc' = [wpc EXCEPT ![w] = "SpanOpened"]
    /\ UNCHANGED <<success, failure, evars, whdr, wodd, wdraw, wisodd, wnum, wresp, codec>>

\* is_odd keeping its context alive after it returns: the span is not ended
is_odd_span_kept(cx, res, tid, sid) ==
    add_event(get_cx_from_parent_cx("is_odd", Some(cx), tid, sid), "odd or even")

\* lines 169-179: the span is_odd starts under cx, with its event, ended
\* when is_odd returns
is_odd(cx, res, tid, sid) ==
    DropContext(add_event(get_cx_from_parent_cx("is_odd", Some(cx), tid, sid),
                          "odd or even"))

\* gen_num drawing from an inclusive range, gen_range(1..=10)
GenNumCompute_inclusive(w) ==
    /\ wpc[w] = "SpanOpened"
    /\ \E d \in DrawLow..DrawHigh, res \in BOOLEAN :
          LET random_number == d * 2
              span == is_odd(wcx[w], res, OddTraceId(w), OddSpanId(w))
          IN /\ spans' = Started(span)
             /\ wodd' = [wodd EXCEPT ![w] = ContextOf(span)]
             /\ wdraw' = [wdraw EXCEPT ![w] = d]
             /\ wisodd' = [wisodd EXCEPT ![w] = res]
             /\ wnum' = [wnum EXCEPT ![w] = IF res THEN random_number + 1
                                                   ELSE random_number]
    /\ wpc' = [wpc EXCEPT ![w] = "Computed"]
    /\ UNCHANGED <<success, failure, evars, whdr, wparent, wcx, wresp, codec>>

\* lines 148-155: the draw, doubled, plus one when is_odd says so
GenNumCompute(w) ==
    /\ wpc[w] = "SpanOpened"
    /\ \E d \in DrawLow..(DrawHigh - 1), res \in BOOLEAN :
          LET random_number == d * 2
              span == is_odd(wcx[w], res, OddTraceId(w), OddSpanId(w))
          IN /\ spans' = Started(span)
             /\ wodd' = [wodd EXCEPT ![w] = ContextOf(span)]
             /\ wdraw' = [wdraw EXCEPT ![w] = d]
             /\ wisodd' = [wisodd EXCEPT ![w] = res]
             /\ wnum' = [wnum EXCEPT ![w] = IF res THEN random_number + 1
                                                   ELSE random_number]
    /\ wpc' = [wpc EXCEPT ![w] = "Computed"]
    /\ UNCHANGED <<success, failure, evars, whdr, wparent, wcx, wresp, codec>>

\* gen_num answering while its context stays alive: the span is not ended
GenNumRespond_span_kept(w) ==
    /\ wpc[w] = "Computed"
    /\ spans' = [spans EXCEPT ![wcx[w].span_id] = add_event(@, "Generated random number")]
    /\ success' = success + 1
    /\ wresp' = [wresp EXCEPT ![w] = [status |-> 200, body |-> ToDecimal(wnum[w])]]
    /\ wpc' = [wpc EXCEPT ![w] = "Responded"]
    /\ UNCHANGED <<failure, evars, whdr, wparent, wcx, wodd, wdraw, wisodd, wnum, codec>>

\* gen_num without the counter call
GenNumRespond_uncounted(w) ==
    /\ wpc[w] = "Computed"
    /\ spans' = [spans EXCEPT ![wcx[w].span_id] =
                    DropContext(add_event(@, "Generated random number"))]
    /\ success' = success
    /\ wresp' = [wresp EXCEPT ![w] = [status |-> 200, body |-> ToDecimal(wnum[w])]]
    /\ wpc' = [wpc EXCEPT ![w] = "Responded"]
    /\ UNCHANGED <<failure, evars, whdr, wparent, wcx, wodd, wdraw, wisodd, wnum, codec>>

\* lines 157-166: the event, the counter, the response; cx dropped on return
GenNumRespond(w) ==
    /\ wpc[w] = "Computed"
    /\ spans' = [spans EXCEPT ![wcx[w].span_id] =
                    DropContext(add_event(@, "Generated random number"))]
    /\ success' = success + 1
    /\ wresp' = [wresp EXCEPT ![w] = [status |-> 200, body |-> ToDecimal(wnum[w])]]
    /\ wpc' = [wpc EXCEPT ![w] = "Responded"]
    /\ UNCHANGED <<failure, evars, whdr, wparent, wcx, wodd, wdraw, wisodd, wnum, codec>>

Next ==
    \/ \E e \in Entries : RandnumOpenSpan(e)
    \/ \E e \in Entries : RandnumRelay(e)
    \/ \E e \in Entries : RandnumAwait(e)
    \/ \E e \in Entries : RandnumRespond(e)
    \/ \E w \in Workers : GenNumReceive(w)
    \/ \E w \in Workers : GenNumOpenSpan(w)
    \/ \E w \in Workers : GenNumCompute(w)
    \/ \E w \in Workers : GenNumRespond(w)

Spec == Init /\ [][Next]_vars

(***************************************************************************)
(* The outbound call answered with a status that is not a success: by      *)
(* whatever serves http://127.0.0.1:8080/gen_num in place of gen_num, which *)
(* itself only answers Ok (line 166).                                      *)
(***************************************************************************)
NonSuccess == {404, 500, 503}

\* lines 113-114: send() is Ok(response) whatever the status, and body()
\* reads the body of that response
RandnumAwaitStatus(e) ==
    /\ epc[e] = "Relayed"
    /\ \E st \in NonSuccess :
          eres' = [eres EXCEPT ![e] = [kind |-> "Body", status |-> st,
                                       body |-> <<"error page">>]]
    /\ epc' = [epc EXCEPT ![e] = "Resolved"]
    /\ UNCHANGED <<success, failure, spans, ecx, esent, eresp, wvars, codec>>

NextDownstream ==
    \/ Next
    \/ \E e \in Entries : RandnumAwaitStatus(e)

SpecDownstream == Init /\ [][NextDownstream]_vars

(***************************************************************************)
(* The caller goes away while randnum awaits the outbound call: the server *)
(* drops the handler's future at its await (lines 113-114), and with it    *)
(* the locals it holds, cx among them.  No arm of the match runs.          *)
(***************************************************************************)
RandnumCancel(e) ==
    /\ epc[e] = "Relayed"
    /\ spans' = [spans EXCEPT ![ecx[e].span_id] = DropContext(@)]
    /\ epc' = [epc EXCEPT ![e] = "Cancelled"]
    /\ UNCHANGED <<success, failure, ecx, esent, eres, eresp, wvars, codec>>

NextCancel ==
    \/ Next
    \/ \E e \in Entries : RandnumCancel(e)

SpecCancel == Init /\ [][NextCancel]_vars

(***************************************************************************)
(* Concurrent entrypoint requests: NumPair requests to /randnum in flight  *)
(* at once, each with the /gen_num request it dispatches, their steps      *)
(* interleaved in every order.                                             *)
(***************************************************************************)
NumPair == 2

InitPair == Idle(1..NumPair, 1..NumPair) /\ codec = CodecIdle

NextPair ==
    \/ \E e \in Entries : RandnumOpenSpan(e)
    \/ \E e \in Entries : RandnumRelay(e)
    \/ \E e \in Entries : RandnumAwait(e)
    \/ \E e \in Entries : RandnumRespond(e)
    \/ \E w \in Workers : GenNumOpenSpan(w)
    \/ \E w \in Workers : GenNumCompute(w)
    \/ \E w \in Workers : GenNumRespond(w)

SpecPair == InitPair /\ [][NextPair]_vars

(***************************************************************************)
(* Scheduling: the runtime keeps polling a handler that can take a step,   *)
(* and the outbound call returns, a response or a failure.  No fairness is *)
(* put on the arrival of requests.                                         *)
(***************************************************************************)
Fairness ==
    /\ \A e \in 1..NumEntry :
          /\ WF_vars(RandnumOpenSpan(e))
          /\ WF_vars(RandnumRelay(e))
          /\ WF_vars(RandnumAwait(e))
          /\ WF_vars(RandnumRespond(e))
    /\ \A w \in 1..(NumEntry + NumExternal) :
          /\ WF_vars(GenNumOpenSpan(w))
          /\ WF_vars(GenNumCompute(w))
          /\ WF_vars(GenNumRespond(w))

SpecFair == Spec /\ Fairness

(***************************************************************************)
(* The codec alone: a context is injected into a request's headers (lines  *)
(* 45-62) and the headers are read back (lines 64-73).                     *)
(***************************************************************************)
\* identifiers of one to five hex digits, and zero (an invalid context)
CodecIds == {0, HexNum(<<"1">>), HexNum(<<"f">>), HexNum(<<"1","0">>),
             HexNum(<<"a","b","c">>), HexNum(<<"9","0","0","d">>),
             HexNum(<<"f","f","f","f","f">>)}
\* the sampled bit, the one flag the trace context defines
CodecFlags == {0, SAMPLED}
\* headers the request holds before the injection
CodecRequests ==
    { NoHeaders,
      OneHeader("user-agent", <<"a","w","c">>),
      OneHeader("traceparent", TraceParent(ExtContext(1))) }

InitCodec ==
    /\ Idle(1..NumEntry, 1..(NumEntry + NumExternal))
    /\ \E t \in CodecIds, s \in CodecIds, f \in CodecFlags, h \in CodecRequests :
          codec = [CodecIdle EXCEPT !.pc = "start", !.headers = h,
                      !.cx = [trace_id |-> t, span_id |-> s, flags |-> f,
                              remote |-> FALSE]]

CodecInject ==
    /\ codec.pc = "start"
    /\ codec' = [codec EXCEPT !.pc = "injected",
                               !.headers = inject_context(@, codec.cx)]
    /\ UNCHANGED <<success, failure, spans, evars, wvars>>

CodecExtract ==
    /\ codec.pc = "injected"
    /\ LET got == extract_context(codec.headers)
       IN codec' = [codec EXCEPT !.pc = "extracted", !.panic = got.panic,
                                  !.out = got.cx]
    /\ UNCHANGED <<success, failure, spans, evars, wvars>>

NextCodec == CodecInject \/ CodecExtract

SpecCodec == InitCodec /\ [][NextCodec]_vars


(***************************************************************************)
(* Properties                                                              *)
(***************************************************************************)
SpanOf(cx) == spans[cx.span_id]
SpansOfTrace(tid) == {s \in DOMAIN spans : spans[s].trace_id = tid}

\* C1: once the outbound call of an entrypoint request has reached gen_num
\* and gen_num has made its decision, the trace of the request holds
\* exactly three spans: the randnum span without a parent, the gen_num span
\* whose parent is the randnum span, and the is_odd span whose parent is the
\* gen_num span, all with one trace id.
C1_ThreeSpansOneTrace ==
    \A e \in Entries :
        wpc[e] \in {"Computed", "Responded"} =>
            LET E == SpanOf(ecx[e])
                W == SpanOf(wcx[e])
                D == SpanOf(wodd[e])
            IN /\ SpansOfTrace(E.trace_id) = {E.span_id, W.span_id, D.span_id}
               /\ Cardinality(SpansOfTrace(E.trace_id)) = 3
               /\ E.name = "randnum" /\ W.name = "gen_num" /\ D.name = "is_odd"
               /\ E.parent_span_id = 0
               /\ W.trace_id = E.trace_id
               /\ W.parent_span_id = E.span_id
               /\ D.trace_id = E.trace_id
               /\ D.parent_span_id = W.span_id

\* an entrypoint request relayed with success, its worker done
C1_Witness ==
    \E e \in Entries :
        /\ epc[e] = "Responded" /\ eresp[e].status = 200
        /\ wpc[e] = "Responded"
        /\ Cardinality(SpansOfTrace(ecx[e].trace_id)) = 3

\* a span started under a parent context that holds a valid trace context
ChildOf(span, P) ==
    /\ span.trace_id = P.trace_id
    /\ span.parent_span_id = P.span_id
    /\ span.span_id # P.span_id

\* a span started without a parent: no parent span id, and a trace id no
\* other root span and no inbound context carries
FreshRoot(span) ==
    /\ span.parent_span_id = 0
    /\ span.trace_id # 0
    /\ \A s \in DOMAIN spans :
          (s # span.span_id /\ spans[s].parent_span_id = 0)
              => spans[s].trace_id # span.trace_id
    /\ \A w \in External : wparent[w].trace_id # span.trace_id

\* C2: every span get_cx_from_parent_cx has started is linked as its
\* arguments say: with a valid parent context P (gen_num under the extracted
\* context, is_odd under gen_num's context) it has P's trace id, P's span id
\* as parent and a span id of its own; with no parent (randnum) it has no
\* parent span id and a fresh trace id.
C2_ParentLinkage ==
    /\ \A e \in Entries :
          epc[e] # "Start" => FreshRoot(SpanOf(ecx[e]))
    /\ \A w \in Workers :
          (wpc[w] \in {"SpanOpened", "Computed", "Responded"} /\ IsValid(wparent[w]))
              => ChildOf(SpanOf(wcx[w]), wparent[w])
    /\ \A w \in Workers :
          (wpc[w] \in {"Computed", "Responded"} /\ IsValid(wcx[w]))
              => ChildOf(SpanOf(wodd[w]), wcx[w])

\* all three call sites have run, gen_num once under an inbound context
C2_Witness ==
    /\ \E e \in Entries : epc[e] # "Start"
    /\ \E w \in External :
          /\ wpc[w] = "Responded" /\ IsValid(wparent[w])
          /\ SpanOf(wcx[w]).parent_span_id = ExtSpanId
    /\ \E w \in Workers \ External : wpc[w] = "Responded"

SameContext(a, b) ==
    a.trace_id = b.trace_id /\ a.span_id = b.span_id /\ a.flags = b.flags

\* C3: a valid context injected into a request's headers and extracted from
\* them comes back with the same trace id, span id and flags, whatever the
\* request held before.
C3_RoundTrip ==
    (codec.pc = "extracted" /\ IsValid(codec.cx))
        => (~codec.panic /\ SameContext(codec.out, codec.cx))

\* a context of five hex digits, unsampled, went through a request that
\* already held a traceparent
C3_Witness ==
    /\ codec.pc = "extracted"
    /\ codec.cx.trace_id = HexNum(<<"f","f","f","f","f">>)
    /\ codec.cx.span_id = HexNum(<<"9","0","0","d">>)
    /\ codec.cx.flags = 0
    /\ codec.out.trace_id = codec.cx.trace_id
    /\ Len(codec.headers["traceparent"]) = 55

Failed(e) == eres[e].kind \in {"SendErr", "BodyErr"}
Responds(e) == epc[e] = "Resolved" /\ epc'[e] = "Responded"

\* C4: the step in which randnum answers a failed outbound call (send
\* failed, or body unreadable) returns a 500 response, adds exactly 1 to the
\* failure counter and leaves the success counter as it was.
C4_FailureCounted ==
    [][\A e \in Entries :
          (Responds(e) /\ Failed(e))
              => /\ eresp'[e].status = 500
                 /\ failure' = failure + 1
                 /\ success' = success]_vars

\* both failures have been answered: a send that never reached gen_num, and
\* elsewhere a worker that answered
C4_Witness ==
    \E e \in Entries :
        /\ epc[e] = "Responded" /\ eres[e].kind = "SendErr"
        /\ wpc[e] = "Idle"
        /\ failure = 1 /\ eresp[e].status = 500

\* C5: when randnum has responded, the status of its span is ok after a
\* relay that succeeded and error after one that failed, never unset.
C5_StatusSet ==
    \A e \in Entries :
        epc[e] = "Responded" =>
            SpanOf(ecx[e]).status = IF Failed(e) THEN "error" ELSE "ok"

\* C6: the step in which randnum answers an outbound call that succeeded
\* appends exactly one event, the "received response" event, to the randnum
\* span, adds exactly 1 to the success counter and leaves the failure
\* counter as it was.
C6_SuccessCounted ==
    [][\A e \in Entries :
          (Responds(e) /\ eres[e].kind = "Body")
              => /\ SpanOf(ecx[e])'.events =
                        Append(SpanOf(ecx[e]).events, "received response from gen_num")
                 /\ Len(SpanOf(ecx[e])'.events) = 1
                 /\ success' = success + 1
                 /\ failure' = failure]_vars

\* a relay that succeeded has been answered
C6_Witness ==
    \E e \in Entries :
        /\ epc[e] = "Responded" /\ eres[e].kind = "Body"
        /\ SpanOf(ecx[e]).events = <<"received response from gen_num">>
        /\ success = 2 /\ failure = 0

\* C7: the body of a randnum response after a relay that succeeded is the
\* body gen_num returned for that outbound call, and reads as an integer in
\* 2..19.
C7_RelayedVerbatim ==
    \A e \in Entries :
        (epc[e] = "Responded" /\ eres[e].kind = "Body") =>
            /\ eresp[e].status = 200
            /\ wpc[e] = "Responded"
            /\ eresp[e].body = wresp[e].body
            /\ ParseDecimal(eresp[e].body) \in 2..19

\* the largest reply has been relayed
C7_Witness ==
    \E e \in Entries :
        /\ epc[e] = "Responded" /\ eres[e].kind = "Body"
        /\ eresp[e].body = <<"1", "9">>

WorkersResponded == {w \in Workers : wpc[w] = "Responded"}
EntriesSucceeded == {e \in Entries : epc[e] = "Responded" /\ eres[e].kind = "Body"}
EntriesFailed == {e \in Entries : epc[e] = "Responded" /\ Failed(e)}

\* C8: however the gen_num requests interleave, each gen_num that completes
\* adds exactly 1 to the success counter and nothing to the failure counter,
\* so that the completed gen_num requests account for exactly their number
\* on the success counter; and no step makes a counter smaller.
C8_WorkersCounted ==
    /\ [](/\ success - Cardinality(EntriesSucceeded) = Cardinality(WorkersResponded)
          /\ failure = Cardinality(EntriesFailed))
    /\ [][/\ success' >= success
          /\ failure' >= failure
          /\ \A w \in Workers :
                (wpc[w] = "Computed" /\ wpc'[w] = "Responded")
                    => (success' = success + 1 /\ failure' = failure)]_vars

\* all gen_num requests, more than one, were past their decision together,
\* and all have completed while no randnum has answered yet
C8_Witness ==
    /\ Cardinality(Workers) >= 2
    /\ \A w \in Workers : wpc[w] = "Responded"
    /\ \A e \in Entries : epc[e] = "Relayed"
    /\ success = Cardinality(Workers)
    /\ failure = 0

AllDone ==
    /\ \A e \in Entries : epc[e] = "Responded"
    /\ \A w \in Workers : wpc[w] \in {"Responded", "Aborted"} \/ (w \in Entries /\ wpc[w] = "Idle")

\* C9: when a handler has returned, every span it started has been ended
\* exactly once: the randnum span whatever the outbound call did, the gen_num
\* span and the is_odd span; a gen_num that aborted had started none; and
\* with every request over no span is open.
C9_SpansClosed ==
    /\ \A s \in DOMAIN spans : spans[s].ends <= 1
    /\ \A e \in Entries : epc[e] = "Responded" => SpanOf(ecx[e]).ends = 1
    /\ \A w \in Workers :
          wpc[w] = "Responded" => (SpanOf(wcx[w]).ends = 1 /\ SpanOf(wodd[w]).ends = 1)
    /\ \A w \in Workers : wpc[w] \in {"Computed", "Responded"} => SpanOf(wodd[w]).ends = 1
    /\ \A w \in Workers :
          wpc[w] = "Aborted" => {WorkerSpanId(w), OddSpanId(w)} \cap DOMAIN spans = {}
    /\ AllDone => \A s \in DOMAIN spans : spans[s].ends = 1

\* every request is over, one randnum after a failed outbound call whose
\* gen_num had run, and three or more spans were started
C9_Witness ==
    /\ AllDone
    /\ \E e \in Entries : Failed(e) /\ wpc[e] = "Responded"
    /\ Cardinality(DOMAIN spans) >= 3
    /\ \A s \in DOMAIN spans : spans[s].ends = 1

\* C10: whatever the headers of an inbound gen_num request hold, gen_num does
\* not abort: it goes on to respond.
C10_NeverAborts ==
    \A w \in Workers : wpc[w] # "Aborted"

\* C11: the number gen_num replies with is 2*d + b, d the draw in 1..9 and b
\* 1 when is_odd returned true and 0 otherwise: it lies in 2..19, it is odd
\* exactly when is_odd returned true, the decision was made in a span of its
\* own under the gen_num span, and the body is the decimal text of the number.
C11_ReplyValue ==
    \A w \in Workers :
        /\ wpc[w] \in {"Computed", "Responded"} =>
              /\ wdraw[w] \in 1..9
              /\ wnum[w] = 2 * wdraw[w] + (IF wisodd[w] THEN 1 ELSE 0)
              /\ wnum[w] \in 2..19
              /\ (wnum[w] % 2 = 1) <=> wisodd[w]
              /\ SpanOf(wodd[w]).name = "is_odd"
              /\ SpanOf(wodd[w]).parent_span_id = wcx[w].span_id
        /\ wpc[w] = "Responded" =>
              /\ wresp[w].status = 200
              /\ ParseDecimal(wresp[w].body) = wnum[w]

\* the smallest and the largest reply have both been given
C11_Witness ==
    \E v, w \in Workers :
        /\ wpc[v] = "Responded" /\ wresp[v].body = <<"2">> /\ ~wisodd[v]
        /\ wpc[w] = "Responded" /\ wresp[w].body = <<"1", "9">> /\ wisodd[w]

\* C12: when the outbound call returned a response whose status is not a
\* success, randnum has counted a failure and no success, and has answered
\* with a server error.
C12_NonSuccessIsFailure ==
    \A e \in Entries :
        (epc[e] = "Responded" /\ eres[e].kind = "Body" /\ eres[e].status \notin 200..299)
            => /\ eresp[e].status = 500
               /\ failure >= 1
               /\ success = Cardinality(WorkersResponded)

\* C13: an entrypoint request cancelled while awaiting the worker's response
\* has its span ended, once, with the status "cancelled".
C13_CancelledSpanEnded ==
    \A e \in Entries :
        epc[e] = "Cancelled" =>
            /\ SpanOf(ecx[e]).ends = 1
            /\ SpanOf(ecx[e]).status = "cancelled"

\* C14: an entrypoint request has dispatched no outbound request before its
\* relay step and exactly one from then on, whatever the outcome of the call;
\* that request is a GET to the worker's address whose traceparent header
\* encodes the context of the entrypoint span.
C14_OneDispatch ==
    \A e \in Entries :
        /\ Len(esent[e]) = (IF epc[e] \in {"Start", "SpanOpened"} THEN 0 ELSE 1)
        /\ \A i \in 1..Len(esent[e]) :
              /\ esent[e][i].method = "GET"
              /\ esent[e][i].url = "http://127.0.0.1:8080/gen_num"
              /\ "traceparent" \in DOMAIN esent[e][i].headers
              /\ esent[e][i].headers["traceparent"] = TraceParent(ecx[e])
              /\ LET sc == PropagatorExtract(esent[e][i].headers)
                 IN /\ sc.trace_id = SpanOf(ecx[e]).trace_id
                    /\ sc.span_id = SpanOf(ecx[e]).span_id
                    /\ sc.flags = SpanOf(ecx[e]).flags

\* an entrypoint request has answered after a failed send, one request dispatched
C14_Witness ==
    \E e \in Entries :
        /\ epc[e] = "Responded"
        /\ eres[e].kind = "SendErr"
        /\ eresp[e].status = 500
        /\ Len(esent[e]) = 1
        /\ esent[e][1].headers["traceparent"] = TraceParent(ecx[e])

\* C15: the randnum and gen_num spans have kind server and the is_odd span
\* has kind internal.
C15_SpanKinds ==
    \A s \in DOMAIN spans :
        spans[s].kind = (IF spans[s].name = "is_odd" THEN "internal" ELSE "server")

\* the events a handler records on the span of that name
HandlerEvents(name) ==
    CASE name = "randnum" -> {"received response from gen_num",
                              "failed to read response body",
                              "failed to send request"}
      [] name = "gen_num" -> {"Generated random number"}
      [] OTHER -> {"odd or even"}

\* C16: no step ends a span twice or changes a span that has ended, and a
\* span that a step ends holds the one event its handler recorded (none when
\* the span is not recording): the event was appended while the span was open.
C16_EventsWhileOpen ==
    [][\A s \in DOMAIN spans' :
          /\ spans'[s].ends <= 1
          /\ (s \in DOMAIN spans /\ spans[s].ends >= 1) => spans'[s] = spans[s]
          /\ (s \in DOMAIN spans /\ spans'[s].events # spans[s].events)
                => spans[s].ends = 0
          /\ (spans'[s].ends = 1 /\ (s \in DOMAIN spans => spans[s].ends = 0))
                => IF spans'[s].recording
                   THEN spans'[s].events \in {<<ev>> : ev \in HandlerEvents(spans'[s].name)}
                   ELSE spans'[s].events = <<>>]_vars

\* an end-to-end request is over: its three spans are ended, each with its event
C16_Witness ==
    \E e \in Entries :
        /\ epc[e] = "Responded"
        /\ wpc[e] = "Responded"
        /\ SpanOf(ecx[e]).ends = 1
        /\ SpanOf(ecx[e]).events = <<"received response from gen_num">>
        /\ SpanOf(wcx[e]).ends = 1
        /\ SpanOf(wcx[e]).events = <<"Generated random number">>
        /\ SpanOf(wodd[e]).ends = 1
        /\ SpanOf(wodd[e]).events = <<"odd or even">>

\* the step starts span s / ends span s / finds span s open
Starts(s) == s \notin DOMAIN spans /\ s \in DOMAIN spans'
Ends(s) == /\ s \in DOMAIN spans'
           /\ spans'[s].ends >= 1
           /\ s \in DOMAIN spans => spans[s].ends = 0
IsOpen(s) == s \in DOMAIN spans /\ spans[s].ends = 0
IsEnded(s) == s \in DOMAIN spans /\ spans[s].ends >= 1

\* the decision span starts and ends while the worker span is open
DecisionInWorker(w) ==
    (Starts(OddSpanId(w)) \/ Ends(OddSpanId(w)))
        => IsOpen(WorkerSpanId(w)) /\ spans'[WorkerSpanId(w)].ends = 0

\* the worker span of the request e dispatched starts once the entrypoint
\* span has started
WorkerAfterEntry(e) ==
    Starts(WorkerSpanId(e)) => EntrySpanId(e) \in DOMAIN spans

\* C17 as stated: the decision span lies within the worker span, and the
\* worker span of a dispatched request that reached the worker lies within
\* the entrypoint span: it has ended when the entrypoint span ends.
C17_Nested ==
    [][/\ \A w \in Workers : DecisionInWorker(w)
       /\ \A e \in Entries :
             /\ WorkerAfterEntry(e)
             /\ (Ends(EntrySpanId(e)) /\ wpc[e] # "Idle")
                   => IsEnded(WorkerSpanId(e))]_vars

\* C17, amended: the decision span lies within the worker span; the worker
\* span starts after the entrypoint span, and it has ended when the
\* entrypoint span ends provided the outbound call returned a response.
C17_NestedOnResponse ==
    [][/\ \A w \in Workers : DecisionInWorker(w)
       /\ \A e \in Entries :
             /\ WorkerAfterEntry(e)
             /\ (Ends(EntrySpanId(e)) /\ eres[e].kind \in {"Body", "BodyErr"})
                   => IsEnded(WorkerSpanId(e)) /\ IsEnded(OddSpanId(e))]_vars

\* the entrypoint span has ended after a response whose body could not be
\* read, the worker's spans ended before it
C17_Witness ==
    \E e \in Entries :
        /\ epc[e] = "Responded"
        /\ eres[e].kind = "BodyErr"
        /\ IsEnded(EntrySpanId(e))
        /\ IsEnded(WorkerSpanId(e))
        /\ IsEnded(OddSpanId(e))

\* the spans started on behalf of entrypoint request e: its own span and
\* the spans of the gen_num request it dispatched
RequestSpans(e) ==
    {EntrySpanId(e), WorkerSpanId(e), OddSpanId(e)} \cap DOMAIN spans

\* C18: with entrypoint requests interleaved in any order and whatever the
\* headers they came with, every entrypoint span is a root with a trace id
\* of its own, and no span of one entrypoint request has the trace id of, or
\* a parent among, the spans of another.
C18_IndependentRoots ==
    \A e \in Entries :
        /\ epc[e] # "Start" =>
              /\ SpanOf(ecx[e]).parent_span_id = 0
              /\ SpanOf(ecx[e]).trace_id = EntryTraceId(e)
        /\ \A f \in Entries \ {e} :
              \A s \in RequestSpans(e), t \in RequestSpans(f) :
                  /\ spans[s].trace_id # spans[t].trace_id
                  /\ spans[s].parent_span_id # t

\* two entrypoint requests are in flight at once, both awaiting their
\* workers, whose spans are open under different traces
C18_Witness ==
    \E e, f \in Entries :
        /\ e # f
        /\ epc[e] = "Relayed" /\ epc[f] = "Relayed"
        /\ wpc[e] = "SpanOpened" /\ wpc[f] = "Computed"
        /\ SpanOf(wcx[e]).trace_id = SpanOf(ecx[e]).trace_id
        /\ SpanOf(wcx[f]).trace_id = SpanOf(ecx[f]).trace_id
        /\ SpanOf(ecx[e]).trace_id # SpanOf(ecx[f]).trace_id

EntriesResponded == {e \in Entries : epc[e] = "Responded"}

\* C19: the two counters together count the handler invocations that have
\* completed, in every state and so in those with no request in flight: each
\* step that completes a randnum or a gen_num adds 1 to exactly one counter,
\* no other step changes a counter, and a single end-to-end success, nothing
\* else completed, leaves the success counter at exactly 2.
C19_Conservation ==
    /\ [](/\ success + failure
                = Cardinality(EntriesResponded) + Cardinality(WorkersResponded)
          /\ AllDone => success + failure
                           = Cardinality(Entries) + Cardinality(WorkersResponded)
          /\ (\E e \in Entries : EntriesResponded = {e} /\ EntriesSucceeded = {e}
                                    /\ WorkersResponded = {e})
                => (success = 2 /\ failure = 0))
    /\ [][LET done == Cardinality({e \in Entries : Responds(e)})
                      + Cardinality({w \in Workers : wpc[w] = "Computed"
                                                     /\ wpc'[w] = "Responded"})
          IN /\ done <= 1
             /\ success' + failure' = success + failure + done
             /\ success' \in {success, success + 1}
             /\ failure' \in {failure, failure + 1}]_vars

\* no request is in flight: an end-to-end success, and an outside gen_num
\* request that aborted and is counted nowhere
C19_Witness ==
    /\ AllDone
    /\ \E e \in Entries : e \in EntriesSucceeded
    /\ \E w \in External : wpc[w] = "Aborted"
    /\ success = 2 * Cardinality(EntriesSucceeded)
    /\ failure = Cardinality(Entries) - Cardinality(EntriesSucceeded)

\* C20: every gen_num request that was received reaches Responded, and
\* every randnum request reaches Responded, its reply sent and its span
\* ended, given that the outbound call returns.
C20_Terminates ==
    /\ \A w \in 1..(NumEntry + NumExternal) :
          (wpc[w] = "Received") ~> (wpc[w] = "Responded")
    /\ \A e \in 1..NumEntry :
          (epc[e] = "Start")
              ~> (epc[e] = "Responded" /\ eresp[e] # NoResponse /\ SpanOf(ecx[e]).ends = 1)

=============================================================================
